---- MODULE Spec2Model ----
(***************************************************************************)
(* Rendering-session controller of the DjVu reader view (DjvuView.ts) and  *)
(* the position store of the plugin (main.ts).                             *)
(*                                                                         *)
(* One step of the model is one JavaScript task of the control thread: a   *)
(* host lifecycle callback, a window "message" event, a timer callback or  *)
(* the settlement of the payload read, each together with the promise      *)
(* continuations (microtasks) it releases, which run before any other      *)
(* task.  The rendering surface (the iframe with the vendored viewer) is   *)
(* an opaque actor: any protocol message may arrive from any surface that  *)
(* was ever created, at any time, late messages included.                  *)
(***************************************************************************)
EXTENDS Integers, Sequences, FiniteSets, TLC

\* ------------------------------------------------------------------ bounds
\* number of render sessions (values of renderSeq) explored
MaxSeq == 2
\* largest page number the surface reports and the store holds
MaxPage == 1

\* null in a number-valued field (a page, a seq, a handle)
Null == -1
\* null in a string-valued field; a string is a sequence of character codes
NullText == <<Null>>
\* null in FileView.file and in activeMenu
NoFile == [path |-> "", extension |-> ""]
NoMenu == [text |-> <<>>, page |-> Null, link |-> <<>>, quote |-> <<>>]

Pages == 1..MaxPage
\* the page a link fragment asks for: one that no stored position equals,
\* so that the source of an opened page can be told
LinkPages == {MaxPage + 1}

\* TFile values handed to onLoadFile: two documents and one foreign file
Files ==
  { [path |-> "a.djvu", extension |-> "djvu"],
    [path |-> "b.DJV", extension |-> "DJV"],
    [path |-> "n.txt", extension |-> "txt"] }

\* the documents whose position the store may hold
DocPaths == {"a.djvu", "b.DJV"}

ToLowerCase(ext) ==
  CASE ext = "DJV" -> "djv"
    [] ext = "DJVU" -> "djvu"
    [] OTHER -> ext

MessageTypes ==
  {"DJVU_READY", "DJVU_LOADED", "DJVU_ERROR", "DJVU_CONTEXT_MENU",
   "DJVU_PAGE_CHANGED", "DJVU_CLICK"}

\* the data fields explored with each message type
MessageData(type) ==
  CASE type = "DJVU_PAGE_CHANGED" ->
         {[page |-> p, text |-> <<>>] : p \in Pages \cup {Null}}
    [] type = "DJVU_CONTEXT_MENU" ->
         {[page |-> Null, text |-> t] : t \in {<<>>, <<115, 101, 108>>}}
    [] OTHER -> {[page |-> Null, text |-> <<>>]}

\* ------------------------------------------------------------ the codec
\* Text is a sequence of character codes; NullText is JavaScript's null where
\* a string may be, Throws an exception leaving the function.
Throws == <<-2>>

\* a \o b, or the exception of either
Cat(a, b) == IF a = Throws \/ b = Throws THEN Throws ELSE a \o b

IsDigit(c) == c \in 48..57
IsUpper(c) == c \in 65..90
IsLower(c) == c \in 97..122
IsAlnum(c) == IsDigit(c) \/ IsUpper(c) \/ IsLower(c)
IsHex(c) == IsDigit(c) \/ c \in 65..70 \/ c \in 97..102
HexVal(c) == IF IsDigit(c) THEN c - 48 ELSE IF c \in 65..70 THEN c - 55 ELSE c - 87
HexChar(v) == IF v < 10 THEN 48 + v ELSE 55 + v

\* a byte as %XX, upper-case hex
PercentByte(b) == <<37, HexChar(b \div 16), HexChar(b % 16)>>

RECURSIVE PercentBytes(_)
PercentBytes(bs) ==
  IF bs = <<>> THEN <<>> ELSE PercentByte(Head(bs)) \o PercentBytes(Tail(bs))

\* the UTF-8 bytes of a code point
Utf8Encode(cp) ==
  IF cp < 128 THEN <<cp>>
  ELSE IF cp < 2048 THEN <<192 + cp \div 64, 128 + (cp % 64)>>
  ELSE IF cp < 65536
    THEN <<224 + cp \div 4096, 128 + ((cp \div 64) % 64), 128 + (cp % 64)>>
  ELSE <<240 + cp \div 262144, 128 + ((cp \div 4096) % 64),
         128 + ((cp \div 64) % 64), 128 + (cp % 64)>>

IsSurrogate(cp) == cp \in 55296..57343

\* characters encodeURIComponent leaves alone: A-Z a-z 0-9 - _ . ! ~ * ' ( )
UriUnreserved(c) == IsAlnum(c) \/ c \in {45, 95, 46, 33, 126, 42, 39, 40, 41}

\* encodeURIComponent: URIError on a lone surrogate
RECURSIVE EncodeURIComponent(_)
EncodeURIComponent(s) ==
  IF s = <<>> THEN <<>>
  ELSE LET c == Head(s) IN
       IF IsSurrogate(c) THEN Throws
       ELSE Cat(IF UriUnreserved(c) THEN <<c>> ELSE PercentBytes(Utf8Encode(c)),
                EncodeURIComponent(Tail(s)))

AllHex(s) == \A i \in DOMAIN s : IsHex(s[i])

\* unescape: %XX and %uXXXX become the character of that code
RECURSIVE Unescape(_)
Unescape(s) ==
  IF s = <<>> THEN <<>>
  ELSE IF s[1] = 37 /\ Len(s) >= 6 /\ s[2] = 117 /\ AllHex(SubSeq(s, 3, 6))
    THEN <<HexVal(s[3]) * 4096 + HexVal(s[4]) * 256 + HexVal(s[5]) * 16 + HexVal(s[6])>>
         \o Unescape(SubSeq(s, 7, Len(s)))
  ELSE IF s[1] = 37 /\ Len(s) >= 3 /\ AllHex(SubSeq(s, 2, 3))
    THEN <<HexVal(s[2]) * 16 + HexVal(s[3])>> \o Unescape(SubSeq(s, 4, Len(s)))
  ELSE <<s[1]>> \o Unescape(Tail(s))

\* escape that escapes nothing
EscapeNothing(s) == s

\* characters escape leaves alone: A-Z a-z 0-9 @ * _ + - . /
EscapeUnreserved(c) == IsAlnum(c) \/ c \in {64, 42, 95, 43, 45, 46, 47}

\* escape, on characters below 256
RECURSIVE Escape(_)
Escape(s) ==
  IF s = <<>> THEN <<>>
  ELSE (IF EscapeUnreserved(Head(s)) THEN <<Head(s)>> ELSE PercentByte(Head(s)))
       \o Escape(Tail(s))

\* the base64 alphabet
B64Char(v) ==
  IF v < 26 THEN 65 + v
  ELSE IF v < 52 THEN 97 + (v - 26)
  ELSE IF v < 62 THEN 48 + (v - 52)
  ELSE IF v = 62 THEN 43 ELSE 47

IsB64(c) == IsAlnum(c) \/ c \in {43, 47}

B64Val(c) ==
  IF IsUpper(c) THEN c - 65
  ELSE IF IsLower(c) THEN c - 97 + 26
  ELSE IF IsDigit(c) THEN c - 48 + 52
  ELSE IF c = 43 THEN 62 ELSE 63

\* btoa: InvalidCharacterError on a character above 255
RECURSIVE Btoa(_)
Btoa(b) ==
  IF \E i \in DOMAIN b : b[i] > 255 THEN Throws
  ELSE IF Len(b) = 0 THEN <<>>
  ELSE IF Len(b) = 1
    THEN <<B64Char(b[1] \div 4), B64Char((b[1] % 4) * 16), 61, 61>>
  ELSE IF Len(b) = 2
    THEN <<B64Char(b[1] \div 4), B64Char((b[1] % 4) * 16 + b[2] \div 16),
           B64Char((b[2] % 16) * 4), 61>>
  ELSE <<B64Char(b[1] \div 4), B64Char((b[1] % 4) * 16 + b[2] \div 16),
         B64Char((b[2] % 16) * 4 + b[3] \div 64), B64Char(b[3] % 64)>>
       \o Btoa(SubSeq(b, 4, Len(b)))

IsAsciiWhitespace(c) == c \in {9, 10, 12, 13, 32}

RECURSIVE StripWhitespace(_)
StripWhitespace(s) ==
  IF s = <<>> THEN <<>>
  ELSE (IF IsAsciiWhitespace(Head(s)) THEN <<>> ELSE <<Head(s)>>)
       \o StripWhitespace(Tail(s))

\* forgiving-base64: one or two trailing = of a length that is a multiple of 4
StripPadding(s) ==
  IF Len(s) % 4 = 0 /\ Len(s) > 0 /\ s[Len(s)] = 61
    THEN IF s[Len(s) - 1] = 61 THEN SubSeq(s, 1, Len(s) - 2)
                               ELSE SubSeq(s, 1, Len(s) - 1)
    ELSE s

RECURSIVE AtobBytes(_)
AtobBytes(v) ==
  IF Len(v) = 0 THEN <<>>
  ELSE IF Len(v) = 2 THEN <<v[1] * 4 + v[2] \div 16>>
  ELSE IF Len(v) = 3
    THEN <<v[1] * 4 + v[2] \div 16, (v[2] % 16) * 16 + v[3] \div 4>>
  ELSE <<v[1] * 4 + v[2] \div 16, (v[2] % 16) * 16 + v[3] \div 4,
         (v[3] % 4) * 64 + v[4]>>
       \o AtobBytes(SubSeq(v, 5, Len(v)))

\* atob: InvalidCharacterError on anything that is not base64
Atob(s) ==
  LET t == StripPadding(StripWhitespace(s)) IN
  IF Len(t) % 4 = 1 \/ \E i \in DOMAIN t : ~IsB64(t[i]) THEN Throws
  ELSE AtobBytes([i \in DOMAIN t |-> B64Val(t[i])])

\* the length of the UTF-8 sequence a lead byte announces, 0 if it is none
Utf8Length(b) ==
  IF b < 128 THEN 1
  ELSE IF b \in 194..223 THEN 2
  ELSE IF b \in 224..239 THEN 3
  ELSE IF b \in 240..244 THEN 4
  ELSE 0

\* the code point of a UTF-8 sequence, Null if the sequence is not valid
Utf8Decode(bs) ==
  LET n == Len(bs)
      cp == IF n = 1 THEN bs[1]
            ELSE IF n = 2 THEN (bs[1] - 192) * 64 + (bs[2] - 128)
            ELSE IF n = 3
              THEN (bs[1] - 224) * 4096 + (bs[2] - 128) * 64 + (bs[3] - 128)
            ELSE (bs[1] - 240) * 262144 + (bs[2] - 128) * 4096
                 + (bs[3] - 128) * 64 + (bs[4] - 128)
      least == IF n = 1 THEN 0 ELSE IF n = 2 THEN 128
               ELSE IF n = 3 THEN 2048 ELSE 65536
  IN IF /\ \A i \in 2..n : bs[i] \in 128..191
        /\ cp >= least /\ cp <= 1114111 /\ ~IsSurrogate(cp)
       THEN cp ELSE Null

\* the bytes of n consecutive %XX groups at the head of s, Throws if there
\* are not n of them
RECURSIVE PercentGroup(_, _)
PercentGroup(s, n) ==
  IF n = 0 THEN <<>>
  ELSE IF Len(s) >= 3 /\ s[1] = 37 /\ AllHex(SubSeq(s, 2, 3))
    THEN Cat(<<HexVal(s[2]) * 16 + HexVal(s[3])>>,
             PercentGroup(SubSeq(s, 4, Len(s)), n - 1))
  ELSE Throws

\* decodeURIComponent: URIError on a bad escape or on bytes that are not UTF-8
RECURSIVE DecodeURIComponent(_)
DecodeURIComponent(s) ==
  IF s = <<>> THEN <<>>
  ELSE IF s[1] # 37 THEN Cat(<<s[1]>>, DecodeURIComponent(Tail(s)))
  ELSE LET first == PercentGroup(s, 1)
           n == IF first = Throws THEN 0 ELSE Utf8Length(first[1])
           bs == IF n = 0 THEN Throws ELSE PercentGroup(s, n)
       IN IF bs = Throws \/ Utf8Decode(bs) = Null THEN Throws
          ELSE Cat(<<Utf8Decode(bs)>>,
                   DecodeURIComponent(SubSeq(s, 3 * n + 1, Len(s))))

\* ------------------------------------------------- fragments and citations
Min(S) == CHOOSE x \in S : \A y \in S : x <= y

\* "page=" and "q=", the literals of the two regular expressions
PageKey == <<112, 97, 103, 101, 61>>
QKey == <<113, 61>>

\* s has k at index i
StartsWith(s, i, k) ==
  i + Len(k) - 1 <= Len(s) /\ SubSeq(s, i, i + Len(k) - 1) = k

\* (\d+): the last index of the digits that start at i
DigitRunEnd(s, i) ==
  LET stops == {j \in i..Len(s) : ~IsDigit(s[j])}
  IN IF stops = {} THEN Len(s) ELSE Min(stops) - 1

\* ([^&]+): the last index of the characters other than & that start at i
TokenRunEnd(s, i) ==
  LET stops == {j \in i..Len(s) : s[j] = 38}
  IN IF stops = {} THEN Len(s) ELSE Min(stops) - 1

\* a pattern that never matches
PageMatchNone(s) == NullText

\* subpath.match(/page=(\d+)/)?.[1]: the leftmost match, NullText if none
PageMatch(s) ==
  LET at == {i \in 1..Len(s) :
               /\ StartsWith(s, i, PageKey)
               /\ i + 5 <= Len(s) /\ IsDigit(s[i + 5])}
  IN IF at = {} THEN NullText
     ELSE SubSeq(s, Min(at) + 5, DigitRunEnd(s, Min(at) + 5))

\* subpath.match(/q=([^&]+)/)?.[1]
QMatch(s) ==
  LET at == {i \in 1..Len(s) :
               /\ StartsWith(s, i, QKey)
               /\ i + 2 <= Len(s) /\ s[i + 2] # 38}
  IN IF at = {} THEN NullText
     ELSE SubSeq(s, Min(at) + 2, TokenRunEnd(s, Min(at) + 2))

\* parseInt(digits, 10)
RECURSIVE ParseInt(_)
ParseInt(ds) ==
  IF ds = <<>> THEN 0
  ELSE ParseInt(SubSeq(ds, 1, Len(ds) - 1)) * 10 + (ds[Len(ds)] - 48)

\* `${page}` of a non-negative integer
RECURSIVE ToDigits(_)
ToDigits(n) ==
  IF n < 10 THEN <<48 + n>> ELSE ToDigits(n \div 10) \o <<48 + (n % 10)>>

\* lines 123-128: the page and the percent-decoded q token of a subpath
ParseSubpath(s) ==
  LET pm == PageMatch(s)
      qm == QMatch(s)
  IN [page |-> IF pm # NullText THEN ParseInt(pm) ELSE Null,
      highlight |-> IF qm # NullText THEN DecodeURIComponent(qm) ELSE NullText]

\* lines 134-140: decodeURIComponent(escape(atob(highlight))), null on a throw
DecodeHighlight(h) ==
  LET b == Atob(h)
      t == IF b = Throws THEN Throws ELSE DecodeURIComponent(Escape(b))
  IN IF t = Throws THEN NullText ELSE t

\* line 370: encodeURIComponent(btoa(unescape(encodeURIComponent(text))))
EncodeText(text) ==
  LET u == EncodeURIComponent(text)
      b == IF u = Throws THEN Throws ELSE Btoa(Unescape(u))
  IN IF b = Throws THEN Throws ELSE EncodeURIComponent(b)

\* "#page=N&q=token", the subpath of the link
LinkSubpath(page, token) ==
  <<35>> \o PageKey \o ToDigits(page) \o <<38>> \o QKey \o token

\* line 373: [[path#page=N&q=token|name (page N)]]
LinkWithHighlight(path, name, page, token) ==
  <<91, 91>> \o path \o LinkSubpath(page, token) \o <<124>> \o name
  \o <<32, 40>> \o <<112, 97, 103, 101, 32>> \o ToDigits(page) \o <<41, 93, 93>>

\* .replace(/\r\n/g, "\n").replace(/\r/g, "\n")
RECURSIVE NormalizeNewlines(_)
NormalizeNewlines(t) ==
  IF t = <<>> THEN <<>>
  ELSE IF t[1] = 13 /\ Len(t) >= 2 /\ t[2] = 10
    THEN <<10>> \o NormalizeNewlines(SubSeq(t, 3, Len(t)))
  ELSE <<IF t[1] = 13 THEN 10 ELSE t[1]>> \o NormalizeNewlines(Tail(t))

\* .split("\n")
RECURSIVE Split(_)
Split(t) ==
  LET brk == {i \in DOMAIN t : t[i] = 10}
  IN IF brk = {} THEN <<t>>
     ELSE <<SubSeq(t, 1, Min(brk) - 1)>> \o Split(SubSeq(t, Min(brk) + 1, Len(t)))

\* WhiteSpace and LineTerminator of ECMAScript
IsJsWhitespace(c) ==
  c \in {9, 10, 11, 12, 13, 32, 160, 5760, 8232, 8233, 8239, 8287, 12288, 65279}
  \/ c \in 8192..8202

\* String.prototype.trimEnd
RECURSIVE TrimEnd(_)
TrimEnd(l) ==
  IF l # <<>> /\ IsJsWhitespace(l[Len(l)])
    THEN TrimEnd(SubSeq(l, 1, Len(l) - 1)) ELSE l

\* .join("\n")
RECURSIVE Join(_)
Join(ls) ==
  IF Len(ls) = 1 THEN ls[1] ELSE ls[1] \o <<10>> \o Join(Tail(ls))

\* a block quote that splits the selection at \n only
QuoteBlockLf(text, link) ==
  LET lines == Split(text)
      quoteLines == [i \in DOMAIN lines |-> TrimEnd(<<62, 32>> \o lines[i])]
  IN Join(quoteLines) \o <<10, 10>> \o link

\* lines 376-377: the block quote, a blank line, the link
QuoteBlock(text, link) ==
  LET lines == Split(NormalizeNewlines(text))
      quoteLines == [i \in DOMAIN lines |-> TrimEnd(<<62, 32>> \o lines[i])]
  IN Join(quoteLines) \o <<10, 10>> \o link

\* TFile.path and TFile.name as text
Chars(str) ==
  CASE str = "a.djvu" -> <<97, 46, 100, 106, 118, 117>>
    [] str = "b.DJV" -> <<98, 46, 68, 74, 86>>
    [] str = "n.txt" -> <<110, 46, 116, 120, 116>>
    [] OTHER -> <<>>

\* the selection "Hi" and the token a link carries for it
Hi == <<72, 105>>
\* what setEphemeralState is handed in the session model: with and without a
\* page, without q, with a q that is no percent-encoding ("%"), with a q that
\* is no base64 ("!"), with the token of a quote
LinkFragments ==
  LET pages == {<<35>>, <<35>> \o PageKey \o ToDigits(MaxPage + 1) \o <<38>>}
      qs == {<<>>, QKey \o <<37>>, QKey \o <<33>>, QKey \o EncodeText(Hi)}
  IN {p \o q : p \in pages, q \in qs}

VARIABLES
  view,              \* lifecycle of the view: "constructed", "open", "closed"
  file,              \* FileView.file, kept by the host
  renderSeq,         \* DjvuView.renderSeq
  initWait,          \* DjvuView.initWait: Null or the seq of the waiting render
  messageHandler,    \* DjvuView.messageHandler: Null or the seq of its closure
  iframeEl,          \* DjvuView.iframeEl: Null or the seq of the iframe
  pendingPage,       \* DjvuView.pendingPage
  pendingHighlight,  \* DjvuView.pendingHighlight
  activeMenu,        \* DjvuView.activeMenu: NoMenu or the menu shown
  content,           \* children of contentEl, a sequence of nodes
  listeners,         \* "message" listeners registered on window (by seq)
  timers,            \* pending handshake timers (by seq)
  sessions,          \* one record per call of render that minted a seq: its
                     \* arguments, where it is suspended, its two promises,
                     \* and what onLoadFile resolved page from (saved, link)
  loaded,            \* seqs of the surfaces a LOAD_DJVU was posted to
  notices,           \* Notice popups raised (by seq of the render that failed)
  filePages,         \* DjVuReaderPlugin.data.filePages
  disk,              \* the filePages of the data file, as last saved
  intent,            \* the navigation intent set since the last open
  call,              \* the link being built and followed, when the codec
                     \* is exercised on its own
  hl                 \* the activation of highlightText in the surface, when
                     \* the text search is exercised on its own

\* the fields of the view and what it registered with the window and the DOM
ctrl ==
  <<renderSeq, initWait, messageHandler, iframeEl, pendingPage,
    pendingHighlight, activeMenu, content, listeners, timers>>

vars ==
  <<view, file, renderSeq, initWait, messageHandler, iframeEl, pendingPage,
    pendingHighlight, activeMenu, content, listeners, timers, sessions,
    loaded, notices, filePages, disk, intent, call, hl>>

\* state of the codec and of the text search, which the sessions leave alone
aux == <<call, hl>>
NoCall == [stage |-> "none"]
NoHighlight == [stage |-> "none"]

NoIntent == [page |-> Null, quote |-> NullText]

\* ------------------------------------------------------------- DOM helpers
\* what a surface has been asked to load
NoLoad ==
  [sent |-> FALSE, page |-> Null, highlight |-> NullText, result |-> "none"]
LoadMessage(page, highlight) ==
  [sent |-> TRUE, page |-> page, highlight |-> highlight, result |-> "pending"]

\* the viewer root: status line and the host of the iframe
ViewerNode(seq, status, load) ==
  [kind |-> "viewer", seq |-> seq, text |-> status, load |-> load]
ErrorNode(msg) == [kind |-> "error", seq |-> 0, text |-> msg, load |-> NoLoad]

\* the iframes attached to the document: those have a contentWindow
LiveSurfaces(c) == {c[i].seq : i \in {j \in DOMAIN c : c[j].kind = "viewer"}}

ErrorShown(c) == \E i \in DOMAIN c : c[i].kind = "error"

\* showError without contentEl.empty()
ShowErrorKeepsContent(c, msg) == Append(c, ErrorNode(msg))

\* showError: contentEl.empty() then one error panel
ShowError(c, msg) == <<ErrorNode(msg)>>

\* contentEl.empty()
\* a container that keeps its children
EmptyKeeps(c) == c

Empty(c) == <<>>

\* What can still be observed of the renders.  A render that returned or
\* threw, or whose handshake promise nobody can settle any more (initWait
\* dropped it), never resumes.  page and highlight are read only to post
\* LOAD_DJVU at line 338, which a detached iframe (contentWindow null) never
\* receives.  file is read only by a registered handler that accepts a
\* message, which takes an attached iframe (line 274).  Values that cannot
\* be observed any more are forgotten.
Suspended(s, seq, iw) ==
  \/ s.pc \in {"awaitBuffer", "grace"}
  \/ s.pc = "awaitReady" /\ iw = seq

Reachable(ss, ls, iw, c) ==
  [seq \in DOMAIN ss |->
     LET live == seq \in LiveSurfaces(c)
         runs == Suspended(ss[seq], seq, iw)
     IN [ss[seq] EXCEPT
           !.page = IF runs /\ live THEN @ ELSE Null,
           !.saved = IF live THEN @ ELSE Null,
           !.link = IF live THEN @ ELSE Null,
           !.highlight = IF runs /\ live THEN @ ELSE NullText,
           !.buf = IF runs THEN @ ELSE "gone",
           !.file = IF live /\ seq \in ls THEN @ ELSE NoFile]]

\* ------------------------------------------------------------ cleanup
\* cleanup that leaves the listener registered
RemoveNothing(ls, mh) == ls

RemoveEventListener(ls, mh) == IF mh # Null THEN ls \ {mh} ELSE ls

ClearTimeout(ts, iw) == IF iw # Null THEN ts \ {iw} ELSE ts

\* a handshake wait without a timer
SetNoTimeout(ts, seq) == ts

\* line 311: window.setTimeout(..., 15000)
SetTimeout(ts, seq) == ts \cup {seq}

Cleanup ==
  /\ listeners' = RemoveEventListener(listeners, messageHandler)
  /\ messageHandler' = Null
  /\ timers' = ClearTimeout(timers, initWait)
  /\ initWait' = Null
  /\ iframeEl' = Null
  /\ content' = Empty(content)
  /\ sessions' = Reachable(sessions, listeners', initWait', content')

\* ------------------------------------------------------ position store
\* the page an earlier run stored for a.djvu: one that neither a link asks
\* for nor the surface reports, so that an overwrite can be told
StoredPage == MaxPage + 2

\* loadPluginData: what a previous run left in the data store
StoredAtStartup ==
  { [p \in DocPaths |-> Null],
    [p \in DocPaths |-> IF p = "a.djvu" THEN StoredPage ELSE Null] }

\* getFilePage: this.data.filePages[filePath] ?? null
GetFilePage(fp, path) == IF path \in DOMAIN fp THEN fp[path] ELSE Null

\* setFilePage that keeps the first position recorded for a file
SetFilePageOnce(path, page, saved) ==
  /\ filePages' = IF GetFilePage(filePages, path) # Null
                    THEN filePages
                    ELSE [p \in DOMAIN filePages \cup {path} |->
                            IF p = path THEN page ELSE filePages[p]]
  /\ disk' = IF saved THEN filePages' ELSE disk

\* setFilePage: the in-memory write, then saveData(this.data); saved tells
\* whether the data store accepted the write
SetFilePage(path, page, saved) ==
  /\ filePages' = [p \in DOMAIN filePages \cup {path} |->
                     IF p = path THEN page ELSE filePages[p]]
  /\ disk' = IF saved THEN filePages' ELSE disk

\* ------------------------------------------------- render continuations
\* line 324: if (seq !== this.renderSeq) return;
AfterBuffer(seq, rs) == IF seq # rs THEN "stale" ELSE "grace"

\* the continuation without the await of line 321
AfterReadyNoAwait(buf, seq, rs) ==
  IF buf = "fail" THEN "failed" ELSE AfterBuffer(seq, rs)

\* lines 320-328: after the handshake resolved, await bufferPromise
AfterReady(buf, seq, rs) ==
  CASE buf = "pending" -> "awaitBuffer"
    [] buf = "ok" -> AfterBuffer(seq, rs)
    [] OTHER -> "failed"

\* lines 340-345: the catch block of render
Catch(seq) ==
  /\ content' = ShowError(content, "Failed to open DjVu")
  /\ notices' = notices \cup {seq}

\* a ?? b
Coalesce(a, b) == IF a # Null THEN a ELSE b
CoalesceText(a, b) == IF a # NullText THEN a ELSE b

\* the handler without the check of line 274
SourceUnchecked(h, src, c) == TRUE

\* line 274: evt.source !== iframe.contentWindow (null once detached)
SourceMatches(h, src, c) == h = src /\ src \in LiveSurfaces(c)

\* line 292: typeof data.page === "number" ? data.page : 1
FirstPage == 1

Init ==
  /\ view = "constructed"
  /\ file = NoFile
  /\ renderSeq = 0
  /\ initWait = Null
  /\ messageHandler = Null
  /\ iframeEl = Null
  /\ pendingPage = Null
  /\ pendingHighlight = NullText
  /\ activeMenu = NoMenu
  /\ content = <<>>
  /\ listeners = {}
  /\ timers = {}
  /\ sessions = <<>>
  /\ loaded = {}
  /\ notices = {}
  /\ filePages \in StoredAtStartup
  /\ disk = filePages
  /\ intent = NoIntent
  /\ call = NoCall
  /\ hl = NoHighlight

OnOpen ==
  /\ view = "constructed"
  /\ view' = "open"
  /\ UNCHANGED <<file, renderSeq, initWait, messageHandler, iframeEl,
                 pendingPage, pendingHighlight, activeMenu, content, listeners,
                 timers, sessions, loaded, notices, filePages, disk, intent, aux>>

\* lines 130-132
ApplyPage(pending, page) == IF page # Null THEN page ELSE pending

\* lines 133-141
ApplyHighlight(pending, highlight) ==
  IF highlight # NullText THEN DecodeHighlight(highlight) ELSE pending

\* lines 123-141 on one subpath: whether line 128 throws, and what a run to
\* the end leaves in the two pending fields, given what they held
Locate(s) ==
  LET m == ParseSubpath(s) IN
  IF m.highlight = Throws
    THEN [threw |-> TRUE, page |-> Null, quoted |-> FALSE, quote |-> NullText]
    ELSE [threw |-> FALSE, page |-> m.page, quoted |-> m.highlight # NullText,
          quote |-> ApplyHighlight(NullText, m.highlight)]

\* ---- what the codec is exercised on
\* characters of a selection: a, space, LF, CR, e-acute, the euro sign, an
\* emoji beyond the BMP, &, %, and a lone surrogate
TextAlphabet == {97, 32, 10, 13, 233, 8364, 128512, 38, 37, 55296}

\* longest selection built from the alphabet
MaxText == 2

\* "a \r\nb\r\rc \n", a selection of four lines in the three conventions
FourLines == <<97, 32, 13, 10, 98, 13, 13, 99, 32, 10>>

\* "a\nb", a selection of two lines
TwoLines == <<97, 10, 98>>

Texts ==
  UNION {[1..n -> TextAlphabet] : n \in 0..MaxText} \cup {FourLines, TwoLines}

\* pages a selection is cited from
CitedPages == {1, 5, 15}

\* one key=value field of a fragment
Field(key, value) == [key |-> key, value |-> value]

\* "page", "q", and keys that merely end in them or are foreign
PageName == <<112, 97, 103, 101>>
QName == <<113>>
OtherNames == {<<109, 121>> \o PageName, <<115, 101>> \o QName, <<120>>}

\* q values that are no token: "%ZZ" (no percent-escape), "%FF" (an escape
\* that is no UTF-8), "!!!!" (no base64), "%2Fw%3D%3D" (base64 of the byte
\* FF, which is no UTF-8)
BadTokens ==
  { <<37, 90, 90>>, <<37, 70, 70>>, <<33, 33, 33, 33>>,
    <<37, 50, 70, 119, 37, 51, 68, 37, 51, 68>> }

Fields ==
  {Field(PageName, v) : v \in {<<52, 50>>, <<97, 98, 99>>}}
  \cup {Field(QName, v) : v \in BadTokens \cup {EncodeText(Hi)}}
  \cup {Field(k, <<57>>) : k \in OtherNames}

\* most fields of a fragment
MaxFields == 2

FieldLists == UNION {[1..n -> Fields] : n \in 0..MaxFields}

RECURSIVE JoinFields(_)
JoinFields(fs) ==
  IF fs = <<>> THEN <<>>
  ELSE fs[1].key \o <<61>> \o fs[1].value
       \o (IF Len(fs) > 1 THEN <<38>> \o JoinFields(Tail(fs)) ELSE <<>>)

\* "#k1=v1&k2=v2"
Fragment(fs) == <<35>> \o JoinFields(fs)

\* the subpath the host hands over for a link: from # up to |
SubpathOf(link) ==
  LET from == Min({i \in DOMAIN link : link[i] = 35})
      to == Min({i \in DOMAIN link : i > from /\ link[i] = 124})
  IN SubSeq(link, from, to - 1)

\* the subpaths explored, each located once
Subpaths ==
  LinkFragments
  \cup {Fragment(fs) : fs \in FieldLists}
  \cup {LinkSubpath(p, EncodeText(t)) :
          p \in CitedPages, t \in {x \in Texts : EncodeText(x) # Throws}}
Located == [s \in Subpaths |-> Locate(s)] @@ <<>>

\* setEphemeralState, lines 119-143; an exception of line 128 leaves it
\* before any assignment
SetEphemeralState(subpath) ==
  /\ view = "open"
  /\ LET m == Located[subpath] IN
     IF m.threw
       THEN UNCHANGED <<pendingPage, pendingHighlight, intent>>
       ELSE /\ pendingPage' = ApplyPage(pendingPage, m.page)
            /\ pendingHighlight' = IF m.quoted THEN m.quote ELSE pendingHighlight
            /\ intent' = [page |-> ApplyPage(intent.page, m.page),
                          quote |-> IF m.quoted THEN m.quote ELSE intent.quote]
  /\ UNCHANGED <<view, file, renderSeq, initWait, messageHandler, iframeEl,
                 activeMenu, content, listeners, timers, sessions, loaded,
                 notices, filePages, disk>>

\* line 156 with the operands swapped
ResolvePageStoredFirst(pending, saved) == Coalesce(saved, pending)

\* line 156: this.pendingPage ?? savedPage
ResolvePage(pending, saved) == Coalesce(pending, saved)

\* a render that takes the sequence as it stands
MintSame(rs) == IF rs = 0 THEN 1 ELSE rs

\* line 246: ++this.renderSeq
Mint(rs) == rs + 1

\* render, lines 230-318, up to the first await
Render(f, page, highlight, saved, link) ==
  IF ToLowerCase(f.extension) \notin {"djvu", "djv"}
    THEN /\ content' = ShowError(content, "Not a DjVu file.")
         /\ sessions' = Reachable(sessions, listeners, initWait, content')
         /\ UNCHANGED <<renderSeq, initWait, messageHandler, iframeEl,
                        listeners, timers>>
    ELSE LET seq == Mint(renderSeq) IN
         /\ renderSeq' = seq
         /\ content' = Empty(content) \o <<ViewerNode(seq, "Loading", NoLoad)>>
         /\ iframeEl' = seq
         /\ messageHandler' = seq
         /\ listeners' = RemoveEventListener(listeners, messageHandler) \cup {seq}
         /\ timers' = SetTimeout(ClearTimeout(timers, initWait), seq)
         /\ initWait' = seq
         /\ sessions' = Reachable(Append(sessions,
              [file |-> f, page |-> page, highlight |-> highlight,
               pc |-> "awaitReady", ready |-> "pending", buf |-> "pending",
               saved |-> saved, link |-> link]),
              listeners', initWait', content')

\* onLoadFile, lines 151-164, and the synchronous part of render
OnLoadFile(f) ==
  /\ view = "open"
  /\ renderSeq < MaxSeq
  /\ file' = f
  /\ LET savedPage == GetFilePage(filePages, f.path) IN
       Render(f, ResolvePage(pendingPage, savedPage), pendingHighlight,
              savedPage, pendingPage)
  /\ pendingPage' = Null
  /\ pendingHighlight' = NullText
  /\ intent' = NoIntent
  /\ UNCHANGED <<view, activeMenu, loaded, notices, filePages, disk>>

OnUnloadFile ==
  /\ view = "open"
  /\ Cleanup
  /\ file' = NoFile
  /\ UNCHANGED <<view, renderSeq, pendingPage, pendingHighlight, activeMenu,
                 loaded, notices, filePages, disk, intent, aux>>

OnClose ==
  /\ view = "open"
  /\ Cleanup
  /\ view' = "closed"
  /\ UNCHANGED <<file, renderSeq, pendingPage, pendingHighlight, activeMenu,
                 loaded, notices, filePages, disk, intent, aux>>

\* lines 279-283 and the continuation they release
HandshakeResolved(h) ==
  LET pc == AfterReady(sessions[h].buf, h, renderSeq) IN
  /\ timers' = ClearTimeout(timers, initWait)
  /\ initWait' = Null
  /\ IF pc = "failed"
       THEN Catch(h)
       ELSE UNCHANGED <<content, notices>>
  /\ sessions' = Reachable([sessions EXCEPT ![h].ready = "resolved",
                                             ![h].pc = pc],
                            listeners, initWait', content')
  /\ UNCHANGED <<view, file, renderSeq, messageHandler, iframeEl, pendingPage,
                 pendingHighlight, activeMenu, listeners, loaded, filePages, disk,
                 intent, aux>>

\* lines 284-288 and the catch block
HandshakeRejected(h) ==
  /\ timers' = ClearTimeout(timers, initWait)
  /\ initWait' = Null
  /\ Catch(h)
  /\ sessions' = Reachable([sessions EXCEPT ![h].ready = "rejected",
                                             ![h].pc = "failed"],
                            listeners, initWait', content')
  /\ UNCHANGED <<view, file, renderSeq, messageHandler, iframeEl, pendingPage,
                 pendingHighlight, activeMenu, listeners, loaded, filePages, disk,
                 intent, aux>>

\* showSelectionContextMenu, lines 363-392; an exception of line 370 leaves
\* it before the menu is made
ShowSelectionContextMenu(text, page) ==
  /\ IF file = NoFile \/ iframeEl = Null \/ text = <<>>
       THEN UNCHANGED activeMenu
       ELSE LET token == EncodeText(text)
                link == LinkWithHighlight(Chars(file.path), Chars(file.path),
                                          page, token)
            IN IF token = Throws
                 THEN UNCHANGED activeMenu
                 ELSE activeMenu' = [text |-> text, page |-> page, link |-> link,
                                     quote |-> QuoteBlock(text, link)]
  /\ UNCHANGED <<view, file, renderSeq, initWait, messageHandler, iframeEl,
                 pendingPage, pendingHighlight, content, listeners, timers,
                 sessions, loaded, notices, filePages, disk, intent>>

\* a handler that awaits the save and lets its failure fail the session
StorePositionOrFail(h, page) ==
  \E saved \in BOOLEAN :
    /\ SetFilePage(sessions[h].file.path, page, saved)
    /\ IF saved THEN UNCHANGED <<content, notices>> ELSE Catch(h)
    /\ UNCHANGED <<view, file, renderSeq, initWait, messageHandler, iframeEl,
                   pendingPage, pendingHighlight, activeMenu, listeners, timers,
                   sessions, loaded, intent, aux>>

\* lines 294-298: void this.plugin.setFilePage(file.path, data.page)
StorePosition(h, page) ==
  /\ \E saved \in BOOLEAN : SetFilePage(sessions[h].file.path, page, saved)
  /\ UNCHANGED <<view, file, renderSeq, initWait, messageHandler, iframeEl,
                 pendingPage, pendingHighlight, activeMenu, content, listeners,
                 timers, sessions, loaded, notices, intent, aux>>

\* a handler that takes READY and ERROR whatever the handshake wait is
WaitingAlways(iw, h) == TRUE

\* lines 279 and 284: this.initWait?.seq === seq
Waiting(iw, h) == iw = h

\* the message handler installed by render, lines 272-306
MessageHandler(h, src, type, page, text) ==
  IF ~SourceMatches(h, src, content)
    THEN UNCHANGED vars
    ELSE
      CASE type = "DJVU_READY" /\ Waiting(initWait, h) -> HandshakeResolved(h)
        [] type = "DJVU_ERROR" /\ Waiting(initWait, h) -> HandshakeRejected(h)
        [] type = "DJVU_CONTEXT_MENU" ->
             /\ ShowSelectionContextMenu(text, IF page # Null THEN page ELSE FirstPage)
             /\ UNCHANGED aux
        [] type = "DJVU_PAGE_CHANGED" /\ page # Null -> StorePosition(h, page)
        [] type = "DJVU_CLICK" ->
             /\ activeMenu' = NoMenu
             /\ UNCHANGED <<view, file, renderSeq, initWait, messageHandler,
                            iframeEl, pendingPage, pendingHighlight, content,
                            listeners, timers, sessions, loaded, notices,
                            filePages, disk, intent, aux>>
        [] OTHER -> UNCHANGED vars

\* a "message" event on window whose source is the surface src
Message(src, type, page, text) ==
  /\ src \in 1..Len(sessions)
  /\ \E h \in listeners : MessageHandler(h, src, type, page, text)

\* the handshake timeout callback, lines 311-316, and the catch block
HandshakeTimeout(s) ==
  /\ s \in timers
  /\ timers' = timers \ {s}
  /\ IF initWait = s
       THEN /\ initWait' = Null
            /\ Catch(s)
            /\ sessions' = Reachable([sessions EXCEPT ![s].ready = "rejected",
                                                       ![s].pc = "failed"],
                                      listeners, initWait', content')
       ELSE UNCHANGED <<initWait, sessions, content, notices>>
  /\ UNCHANGED <<view, file, renderSeq, messageHandler, iframeEl, pendingPage,
                 pendingHighlight, activeMenu, listeners, loaded, filePages, disk,
                 intent, aux>>

\* a read somebody may still await: the render waits for its handshake or
\* at line 321
Awaited(s) ==
  \/ sessions[s].pc = "awaitBuffer"
  \/ sessions[s].pc = "awaitReady" /\ initWait = s

\* vault.readBinary settles; a render waiting at line 321 resumes
ReadSettles(s, ok) ==
  /\ s \in 1..Len(sessions)
  /\ sessions[s].buf = "pending"
  /\ Awaited(s)
  /\ LET buf == IF ok THEN "ok" ELSE "fail"
         pc == IF sessions[s].pc = "awaitBuffer"
                 THEN AfterReady(buf, s, renderSeq)
                 ELSE sessions[s].pc
     IN /\ IF sessions[s].pc = "awaitBuffer" /\ pc = "failed"
             THEN Catch(s)
             ELSE UNCHANGED <<content, notices>>
        /\ sessions' = Reachable([sessions EXCEPT ![s].buf = buf, ![s].pc = pc],
                                  listeners, initWait, content')
  /\ UNCHANGED <<view, file, renderSeq, initWait, messageHandler, iframeEl,
                 pendingPage, pendingHighlight, activeMenu, listeners, timers,
                 loaded, filePages, disk, intent, aux>>

\* line 338: iframe.contentWindow?.postMessage(...); line 339: setText("")
PostLoad(c, seq, page, highlight) ==
  [i \in DOMAIN c |->
     IF c[i].kind = "viewer" /\ c[i].seq = seq
       THEN ViewerNode(seq, "", LoadMessage(page, highlight))
       ELSE c[i]]

\* the 50ms timer of line 328 fires: lines 330-339
GraceExpires(s) ==
  /\ s \in 1..Len(sessions)
  /\ sessions[s].pc = "grace"
  /\ content' = PostLoad(content, s, Coalesce(pendingPage, sessions[s].page),
                         CoalesceText(pendingHighlight, sessions[s].highlight))
  /\ loaded' = IF s \in LiveSurfaces(content) THEN loaded \cup {s} ELSE loaded
  /\ pendingPage' = Null
  /\ pendingHighlight' = NullText
  /\ sessions' = Reachable([sessions EXCEPT ![s].pc = "done"],
                            listeners, initWait, content')
  /\ intent' = IF s = renderSeq THEN NoIntent ELSE intent
  /\ UNCHANGED <<view, file, renderSeq, initWait, messageHandler, iframeEl,
                 activeMenu, listeners, timers, notices, filePages, disk, aux>>

\* the iframe script, lines 454-463: loadDocument settles and the surface
\* posts DJVU_LOADED or DJVU_ERROR, which its handler then receives
LoadResult(c, seq, ok) ==
  [i \in DOMAIN c |->
     IF c[i].kind = "viewer" /\ c[i].seq = seq
       THEN [c[i] EXCEPT !.load.result = IF ok THEN "loaded" ELSE "rejected"]
       ELSE c[i]]

SurfaceReplies(s, ok) ==
  /\ \E i \in DOMAIN content :
       /\ content[i].kind = "viewer" /\ content[i].seq = s
       /\ content[i].load.result = "pending"
  /\ IF ~ok /\ s \in listeners /\ initWait = s
       THEN HandshakeRejected(s)
       ELSE /\ content' = LoadResult(content, s, ok)
            /\ UNCHANGED <<view, file, renderSeq, initWait, messageHandler,
                           iframeEl, pendingPage, pendingHighlight, activeMenu,
                           listeners, timers, sessions, loaded, notices,
                           filePages, disk, intent, aux>>

Next ==
  \/ OnOpen
  \/ \E subpath \in LinkFragments : SetEphemeralState(subpath) /\ UNCHANGED aux
  \/ \E f \in Files : OnLoadFile(f) /\ UNCHANGED aux
  \/ OnUnloadFile
  \/ OnClose
  \/ \E src \in 1..MaxSeq, type \in MessageTypes :
       \E d \in MessageData(type) : Message(src, type, d.page, d.text)
  \/ \E s \in 1..MaxSeq : HandshakeTimeout(s)
  \/ \E s \in 1..MaxSeq, ok \in BOOLEAN : ReadSettles(s, ok)
  \/ \E s \in 1..MaxSeq : GraceExpires(s)
  \/ \E s \in 1..MaxSeq, ok \in BOOLEAN : SurfaceReplies(s, ok)

Spec == Init /\ [][Next]_vars

\* timers fire, reads settle
LiveSpec ==
  /\ Spec
  /\ \A s \in 1..MaxSeq :
       /\ WF_vars(HandshakeTimeout(s))
       /\ WF_vars(\E ok \in BOOLEAN : ReadSettles(s, ok))
       /\ WF_vars(GraceExpires(s))

\* ------------------------------------------------- the codec on its own
\* a.djvu was opened, its surface loaded it and nothing is pending
Interactive ==
  LET f == [path |-> "a.djvu", extension |-> "djvu"]
      stored == GetFilePage(filePages, f.path)
  IN /\ view = "open" /\ file = f
     /\ renderSeq = 1 /\ initWait = Null /\ messageHandler = 1 /\ iframeEl = 1
     /\ pendingPage = Null /\ pendingHighlight = NullText
     /\ activeMenu = NoMenu
     /\ content = <<ViewerNode(1, "", [LoadMessage(stored, NullText)
                                         EXCEPT !.result = "loaded"])>>
     /\ listeners = {1} /\ timers = {}
     /\ sessions = <<[file |-> f, page |-> Null, highlight |-> NullText,
                      pc |-> "done", ready |-> "resolved", buf |-> "gone",
                      saved |-> stored, link |-> Null]>>
     /\ loaded = {1} /\ notices = {}
     /\ disk = filePages
     /\ intent = NoIntent

\* a selection about to be cited, or a fragment about to be followed
CodecCalls ==
  {[stage |-> "selected", text |-> t, page |-> p, fields |-> <<>>,
    subpath |-> <<>>, threw |-> FALSE] : t \in Texts, p \in CitedPages}
  \cup {[stage |-> "linked", text |-> NullText, page |-> Null, fields |-> fs,
         subpath |-> Fragment(fs), threw |-> FALSE] : fs \in FieldLists}

CodecInit ==
  /\ filePages \in StoredAtStartup
  /\ Interactive
  /\ call \in CodecCalls
  /\ hl = NoHighlight

\* the user right-clicks the selection and copies the link of the menu
CopyLink ==
  /\ call.stage = "selected"
  /\ ShowSelectionContextMenu(call.text, call.page)
  /\ call' = IF activeMenu' # NoMenu
               THEN [call EXCEPT !.stage = "linked",
                                 !.subpath = SubpathOf(activeMenu'.link)]
               ELSE [call EXCEPT !.stage = "unlinked"]
  /\ UNCHANGED hl

\* the user follows a link: the host hands its subpath to setEphemeralState
FollowLink ==
  /\ call.stage = "linked"
  /\ SetEphemeralState(call.subpath)
  /\ call' = [call EXCEPT !.stage = "followed",
                          !.threw = Located[call.subpath].threw]
  /\ UNCHANGED hl

\* the host then loads the file of the link
Reopen ==
  /\ call.stage = "followed"
  /\ OnLoadFile(file)
  /\ call' = [call EXCEPT !.stage = "opened"]
  /\ UNCHANGED hl

CodecNext == CopyLink \/ FollowLink \/ Reopen

CodecSpec == CodecInit /\ [][CodecNext]_vars

\* ------------------------------------------- the text search on its own
\* String.prototype.toLowerCase on one character: only the dotted capital I
\* (U+0130) becomes two characters, i and the combining dot above
LowerChar(c) ==
  IF IsUpper(c) THEN <<c + 32>>
  ELSE IF c = 304 THEN <<105, 775>>
  ELSE <<c>>

RECURSIVE ToLower(_)
ToLower(t) == IF t = <<>> THEN <<>> ELSE LowerChar(Head(t)) \o ToLower(Tail(t))

\* .replace(/\s+/g, '')
RemoveWhitespace(t) == SelectSeq(t, LAMBDA c : ~IsJsWhitespace(c))

\* .replace(/\s+/g, '').toLowerCase()
Normalize(t) == ToLower(RemoveWhitespace(t))

\* String.prototype.indexOf, counted from 0; -1 if absent
IndexOf(hay, needle) ==
  LET at == {i \in 0..(Len(hay) - Len(needle)) :
               SubSeq(hay, i + 1, i + Len(needle)) = needle}
  IN IF at = {} THEN -1 ELSE Min(at)

\* s.textContent.trim() of line 479: spans that are not blank
VisibleSpans(layer) == SelectSeq(layer, LAMBDA t : TrimEnd(t) # <<>>)

RECURSIVE Concat(_)
Concat(ts) == IF ts = <<>> THEN <<>> ELSE Head(ts) \o Concat(Tail(ts))

\* map[k].start, counted from 0
SpanStart(spans, k) == Len(Concat(SubSeq(spans, 1, k - 1)))

\* lines 494-501: the loop that maps the match back to offsets of text;
\* yields <<startChar, endChar>>
RECURSIVE MapBack(_, _, _, _, _, _)
MapBack(text, i, pos, startChar, idx, n) ==
  IF ~(i < Len(text) /\ pos <= idx + n) THEN <<startChar, Len(text)>>
  ELSE IF IsJsWhitespace(text[i + 1])
    THEN MapBack(text, i + 1, pos, startChar, idx, n)
  ELSE LET start == IF pos = idx THEN i ELSE startChar IN
       IF pos = idx + n - 1 THEN <<start, i + 1>>
       ELSE MapBack(text, i + 1, pos + 1, start, idx, n)

\* lines 486-506: the spans tryHighlight marks, none if the query is absent
Highlighted(spans, query) ==
  LET text == Concat(spans)
      search == Normalize(query)
      idx == IndexOf(Normalize(text), search)
      range == MapBack(text, 0, 0, 0, idx, Len(search))
  IN IF idx = -1 THEN {}
     ELSE {k \in DOMAIN spans :
             /\ SpanStart(spans, k) + Len(spans[k]) > range[1]
             /\ SpanStart(spans, k) < range[2]}

\* line 483: attempts++ < 20
RetryCap == 20

\* texts of the spans of a text layer: "a", "B", "aB", "a ", " a", " ",
\* the dotted capital I, and the three fragments "Hel", "lo wor", "ld"
SpanTexts ==
  {<<97>>, <<66>>, <<97, 66>>, <<97, 32>>, <<32, 97>>, <<32>>, <<304>>}
HelloLayer ==
  <<<<72, 101, 108>>, <<108, 111, 32, 119, 111, 114>>, <<108, 100>>>>

\* most spans of a text layer built from SpanTexts
MaxSpans == 2

Layers ==
  UNION {[1..n -> SpanTexts] : n \in 0..MaxSpans} \cup {HelloLayer}

\* queries: "a", "b", "ab", "A b", "ba", " ", "hello world", "HELLOWORLD",
\* "He  llo World"
Queries ==
  { <<97>>, <<98>>, <<97, 98>>, <<65, 32, 98>>, <<98, 97>>, <<32>>,
    <<104, 101, 108, 108, 111, 32, 119, 111, 114, 108, 100>>,
    <<72, 69, 76, 76, 79, 87, 79, 82, 76, 68>>,
    <<72, 101, 32, 32, 108, 108, 111, 32, 87, 111, 114, 108, 100>> }

\* highlightText(query) was called: attempts = 0 and the first tryHighlight
\* is about to run; layer is the text layer the page gets once rendered
HighlightCalls ==
  {[layer |-> l, rendered |-> FALSE, query |-> q, attempts |-> 0, tries |-> 0,
    timer |-> TRUE, marked |-> {}, found |-> FALSE] :
     l \in Layers, q \in Queries}

HighlightInit ==
  /\ filePages \in StoredAtStartup
  /\ Interactive
  /\ call = NoCall
  /\ hl \in HighlightCalls

\* the viewer renders the text layer of the page
TextLayerRenders ==
  /\ hl.timer /\ ~hl.rendered
  /\ hl' = [hl EXCEPT !.rendered = TRUE]
  /\ UNCHANGED <<view, file, ctrl, sessions, loaded, notices, filePages, disk,
                 intent, call>>

\* tryHighlight runs, lines 476-510
TryHighlight ==
  /\ hl.timer
  /\ LET spans == IF hl.rendered THEN VisibleSpans(hl.layer) ELSE <<>> IN
     IF spans = <<>>
       THEN hl' = [hl EXCEPT !.tries = @ + 1, !.attempts = @ + 1,
                             !.timer = hl.attempts < RetryCap]
       ELSE hl' = [hl EXCEPT !.tries = @ + 1, !.timer = FALSE,
                             !.found = IndexOf(Normalize(Concat(spans)),
                                               Normalize(hl.query)) # -1,
                             !.marked = Highlighted(spans, hl.query)]
  /\ UNCHANGED <<view, file, ctrl, sessions, loaded, notices, filePages, disk,
                 intent, call>>

HighlightNext == TextLayerRenders \/ TryHighlight

HighlightSpec == HighlightInit /\ [][HighlightNext]_vars

\* what a message, a timer or a continuation may change
observable == <<ctrl, sessions, loaded, notices, filePages, disk>>

\* ------------------------------------------------------------------ C1
\* a session that was superseded while it waited for its READY handshake
StaleHandshake(s) ==
  s \in DOMAIN sessions /\ s < renderSeq /\ sessions[s].pc = "awaitReady"

\* C1: once document B is opened while A's session still waits for READY, A's
\* session stays in its handshake wait for ever and is never sent a LOAD, and
\* a late READY, ERROR or timeout of A's surface changes nothing.
C1_StaleHandshakeDropped ==
  [][\A s \in 1..MaxSeq :
       StaleHandshake(s) =>
         /\ sessions'[s].pc = "awaitReady"
         /\ s \notin loaded'
         /\ ( \/ \E type \in {"DJVU_READY", "DJVU_ERROR"} :
                    Message(s, type, Null, <<>>)
              \/ HandshakeTimeout(s) )
            => UNCHANGED observable]_vars

\* B was opened during A's handshake and only B was sent a LOAD
C1_Witness ==
  /\ renderSeq = 2
  /\ StaleHandshake(1)
  /\ loaded = {2}

\* ------------------------------------------------------------------ C2
\* the LOAD_DJVU message the surface seq received
LoadOf(c, seq) ==
  LET i == CHOOSE j \in DOMAIN c : c[j].kind = "viewer" /\ c[j].seq = seq
  IN c[i].load

\* C2: the page carried by a session's LOAD is the page of a link navigation
\* if there is one (set before the open or during it), else the position
\* stored when the document was opened, else none (the surface then opens
\* at its default page).
C2_PagePrecedence ==
  [][\A s \in 1..MaxSeq :
       GraceExpires(s) /\ s \in LiveSurfaces(content) =>
         /\ LoadOf(content', s).sent
         /\ LoadOf(content', s).page =
              IF pendingPage # Null THEN pendingPage
              ELSE IF sessions[s].link # Null THEN sessions[s].link
              ELSE sessions[s].saved]_vars

\* a document with a stored position was opened by a link and loaded at the
\* page of the link
C2_Witness ==
  \E s \in DOMAIN sessions :
    /\ s \in loaded /\ s \in LiveSurfaces(content)
    /\ sessions[s].saved = StoredPage
    /\ sessions[s].link \in LinkPages
    /\ LoadOf(content, s).page = sessions[s].link

\* ------------------------------------------------------------------ C3
\* C3: a LOAD is sent only by a session whose READY was received and whose
\* payload read completed; a session past only one of the two is not in its
\* grace delay and has sent nothing.
C3_LoadNeedsBoth ==
  /\ [](\A s \in DOMAIN sessions :
          /\ sessions[s].pc = "grace" =>
                sessions[s].ready = "resolved" /\ sessions[s].buf = "ok"
          /\ s \in loaded =>
                sessions[s].ready = "resolved" /\ sessions[s].pc = "done")
  /\ [][\A s \in 1..MaxSeq :
          s \in loaded' \ loaded =>
            /\ sessions[s].pc = "grace"
            /\ sessions[s].ready = "resolved"
            /\ sessions[s].buf = "ok"]_vars

\* a LOAD was sent
C3_Witness == \E s \in DOMAIN sessions : s \in loaded /\ sessions[s].pc = "done"

\* ------------------------------------------------------------------ C4
\* the handshake of session s times out
TimedOut(s) == initWait = s /\ HandshakeTimeout(s)

\* an ERROR of its surface reaches session s during its handshake
ErrorInHandshake(s) ==
  /\ initWait = s /\ s \in listeners /\ s \in LiveSurfaces(content)
  /\ Message(s, "DJVU_ERROR", Null, <<>>)

\* C4: a handshake that times out or is answered by ERROR fails the session:
\* the error panel and a notice are shown, no LOAD is ever sent for it, and
\* no later message of its surface changes the controller or the store.
C4_HandshakeFailure ==
  /\ [][\A s \in 1..MaxSeq :
          TimedOut(s) \/ ErrorInHandshake(s) =>
            /\ ErrorShown(content')
            /\ s \in notices'
            /\ sessions'[s].pc = "failed" /\ sessions'[s].ready = "rejected"]_vars
  /\ [](\A s \in DOMAIN sessions :
          sessions[s].ready = "rejected" =>
            s \notin loaded /\ sessions[s].pc = "failed")
  /\ [][\A s \in DOMAIN sessions :
          /\ sessions[s].ready = "rejected"
          /\ \E type \in MessageTypes :
               \E d \in MessageData(type) : Message(s, type, d.page, d.text)
          => UNCHANGED observable]_vars

\* a session failed in its handshake and the error panel is on display
C4_Witness ==
  \E s \in DOMAIN sessions :
    /\ sessions[s].ready = "rejected"
    /\ s \in notices
    /\ ErrorShown(content)

\* ------------------------------------------------------------------ C5
\* the payload read of session s is found to have failed after its READY
ReadFailureSeen(s) ==
  /\ s \in DOMAIN sessions
  /\ sessions[s].pc # "failed"
  /\ sessions'[s].pc = "failed" /\ sessions'[s].ready = "resolved"

\* C5: when the payload read of the current session fails, or its surface
\* answers the LOAD with an ERROR, the error panel is shown and a notice is
\* raised for that session.
C5_LoadFailureReported ==
  [][\A s \in 1..MaxSeq :
       s = renderSeq /\ (ReadFailureSeen(s) \/ SurfaceReplies(s, FALSE)) =>
         ErrorShown(content') /\ s \in notices']_vars

\* ------------------------------------------------------------------ C6
\* what cleanup leaves behind
CleanedUp ==
  /\ messageHandler = Null /\ initWait = Null /\ iframeEl = Null
  /\ content = <<>> /\ listeners = {} /\ timers = {}

\* C6: unload and close both end in the cleaned-up state, and on a view that
\* is already cleaned up they remove no listener, clear no timer and leave
\* the controller, the sessions and the store as they were.
C6_CloseIdempotent ==
  [][OnUnloadFile \/ OnClose =>
       /\ CleanedUp'
       /\ CleanedUp => UNCHANGED <<ctrl, sessions, loaded, notices, filePages>>]_vars

\* a document was opened, then unloaded, then the view was closed
C6_Witness ==
  /\ view = "closed" /\ file = NoFile /\ renderSeq >= 1
  /\ CleanedUp

\* ------------------------------------------------------------------ C7
\* session s is the last one opened and the view was closed or unloaded
Closed(s) == s = renderSeq /\ s \in DOMAIN sessions /\ iframeEl = Null

\* a continuation of session s runs: a message of its surface, its timeout,
\* its payload read, its grace delay
Continuation(s) ==
  \/ \E type \in MessageTypes :
       \E d \in MessageData(type) : Message(s, type, d.page, d.text)
  \/ HandshakeTimeout(s)
  \/ \E ok \in BOOLEAN : ReadSettles(s, ok)
  \/ GraceExpires(s)

\* C7: after close or unload the listener and the timer of the session are
\* gone, and none of its continuations sends a LOAD or changes the
\* controller, the notices or the store.
C7_CloseCancels ==
  /\ [](\A s \in 1..MaxSeq : Closed(s) => s \notin listeners /\ s \notin timers)
  /\ [][\A s \in 1..MaxSeq :
          Closed(s) /\ Continuation(s) =>
            UNCHANGED <<ctrl, loaded, notices, filePages>>]_vars

\* ------------------------------------------------------------------ C8
\* C8: a page (and quote) set by a link after the open and before the grace
\* delay of the current session expired is what the LOAD of that session
\* carries.
C8_IntentInWindowCarried ==
  [][\A s \in 1..MaxSeq :
       /\ GraceExpires(s) /\ s = renderSeq /\ s \in LiveSurfaces(content)
       /\ intent.page # Null
       => /\ LoadOf(content', s).sent
          /\ LoadOf(content', s).page = intent.page
          /\ intent.quote # NullText =>
                LoadOf(content', s).highlight = intent.quote]_vars

\* ------------------------------------------------------------------ C9
\* the iframes attached to the view
Surfaces(c) == {i \in DOMAIN c : c[i].kind = "viewer"}

\* C9: at most one surface is attached and at most one listener registered;
\* an open that starts a session leaves exactly the new surface, the new
\* listener and the new timer.
C9_SingleSurface ==
  /\ [](/\ Cardinality(Surfaces(content)) <= 1
        /\ Cardinality(listeners) <= 1
        /\ Cardinality(timers) <= 1)
  /\ [][renderSeq' # renderSeq =>
          /\ Len(content') = 1
          /\ LiveSurfaces(content') = {renderSeq'}
          /\ listeners' = {renderSeq'}
          /\ timers' = {renderSeq'}]_vars

\* a second document was opened while the first session was in its grace
\* delay
C9_Witness ==
  /\ renderSeq = 2 /\ sessions[1].pc = "grace"
  /\ LiveSurfaces(content) = {2} /\ listeners = {2}

\* ----------------------------------------------------------------- C10
\* C10: a session that is neither superseded nor closed eventually sends its
\* LOAD or the view displays an error panel.
C10_NeverHung ==
  \A s \in 1..MaxSeq :
    (renderSeq = s /\ iframeEl = s) ~>
      (renderSeq # s \/ iframeEl = Null \/ s \in loaded \/ ErrorShown(content))

\* a handshake that got no READY ended in the error panel
C10_Witness ==
  /\ renderSeq = 1 /\ iframeEl = 1
  /\ sessions[1].ready = "rejected" /\ timers = {} /\ ErrorShown(content)
  /\ 1 \notin loaded

\* ----------------------------------------------------------------- C11
\* C11: following the link built for a selection Q on page P leaves page P
\* and quote Q pending, and raises nothing.
C11_LocatorRoundTrip ==
  call.stage = "followed" /\ call.text # NullText =>
    /\ ~call.threw
    /\ pendingPage = call.page
    /\ pendingHighlight = call.text

\* the link of a selection with an emoji, a euro sign or an e-acute, of one
\* with & or %, and of the four-line selection were followed
C11_Witness ==
  /\ call.stage = "followed" /\ call.text # NullText
  /\ pendingHighlight = call.text
  /\ call.text \in {<<128512, 8364>>, <<233>>, <<38, 37>>, FourLines}
  /\ pendingPage = 15

\* ----------------------------------------------------------------- C12
\* the fields of a fragment whose key is k
FieldsOf(fs, k) == SelectSeq(fs, LAMBDA f : f.key = k)

\* a fragment of one page field with digits and one q field that is no token
MalformedQ(fs) ==
  /\ Len(fs) = 2
  /\ Len(FieldsOf(fs, PageName)) = 1 /\ Len(FieldsOf(fs, QName)) = 1
  /\ \A i \in DOMAIN FieldsOf(fs, PageName)[1].value :
       IsDigit(FieldsOf(fs, PageName)[1].value[i])
  /\ FieldsOf(fs, QName)[1].value \in BadTokens

\* C12: a fragment whose q field is malformed raises nothing, leaves the
\* quote null and the page of its page field pending.
C12_MalformedQuoteIsNull ==
  call.stage = "followed" /\ call.text = NullText /\ MalformedQ(call.fields) =>
    /\ ~call.threw
    /\ pendingHighlight = NullText
    /\ pendingPage = ParseInt(FieldsOf(call.fields, PageName)[1].value)

\* ----------------------------------------------------------------- C13
\* the fields with key page, then those with key q, every other field dropped
ExactFields(fs) == FieldsOf(fs, PageName) \o FieldsOf(fs, QName)

\* C13: a fragment decodes as the fragment of its page and q fields alone
\* does, whatever their order and whatever other fields stand between them.
C13_OnlyExactKeys ==
  call.stage = "followed" /\ call.text = NullText =>
    LET m == Locate(Fragment(ExactFields(call.fields))) IN
    /\ call.threw = m.threw
    /\ pendingPage = m.page
    /\ pendingHighlight = m.quote

\* ----------------------------------------------------------------- C14
\* the one field of a fragment of one field
Only(fs) == fs[1]

\* C14: a fragment with only a page of digits leaves that page and no quote;
\* one with only a q token leaves the quote and no page; one with no field,
\* or with a page that is not a number, leaves neither; and an open that
\* follows with no page pending starts from the stored position.
C14_PartialFragments ==
  LET fs == call.fields IN
  /\ call.stage = "followed" /\ call.text = NullText =>
       /\ fs = <<Field(PageName, <<52, 50>>)>> =>
            ~call.threw /\ pendingPage = 42 /\ pendingHighlight = NullText
       /\ fs = <<Field(QName, EncodeText(Hi))>> =>
            ~call.threw /\ pendingPage = Null /\ pendingHighlight = Hi
       /\ fs = <<>> \/ fs = <<Field(PageName, <<97, 98, 99>>)>> =>
            ~call.threw /\ pendingPage = Null /\ pendingHighlight = NullText
  /\ call.stage = "opened" /\ call.text = NullText
     /\ (fs = <<>> \/ (Len(fs) = 1 /\ Only(fs).key = QName
                                    /\ Only(fs).value = EncodeText(Hi))) =>
       sessions[renderSeq].page = GetFilePage(filePages, file.path)

\* a link with only a quote opened a document at its stored page
C14_Witness ==
  /\ call.stage = "opened"
  /\ call.fields = <<Field(QName, EncodeText(Hi))>>
  /\ renderSeq = 2
  /\ sessions[2].page = StoredPage /\ sessions[2].highlight = Hi

\* ----------------------------------------------------------------- C15
\* for each character of Normalize(text), the offset in text (from 0) of
\* the character it comes from
RECURSIVE Origins(_, _)
Origins(text, i) ==
  IF i >= Len(text) THEN <<>>
  ELSE (IF IsJsWhitespace(text[i + 1]) THEN <<>>
        ELSE [k \in 1..Len(LowerChar(text[i + 1])) |-> i])
       \o Origins(text, i + 1)

\* [startChar, endChar): the original offsets the leftmost normalized
\* occurrence of the query covers; empty for an empty normalized query
OccurrenceSpan(text, query) ==
  LET search == Normalize(query)
      idx == IndexOf(Normalize(text), search)
      from == Origins(text, 0)
  IN IF search = <<>> THEN <<0, 0>>
     ELSE <<from[idx + 1], from[idx + Len(search)] + 1>>

\* the fragments whose span [start, start+len) overlaps range
Overlapping(spans, range) ==
  {k \in DOMAIN spans :
     /\ SpanStart(spans, k) < range[2]
     /\ SpanStart(spans, k) + Len(spans[k]) > range[1]}

\* C15: when the normalized query occurs in the normalized text of the
\* fragments, the fragments marked are exactly those that overlap the
\* original span of its leftmost occurrence.
C15_MarksOverlapping ==
  ~hl.timer /\ hl.found =>
    LET spans == VisibleSpans(hl.layer) IN
    hl.marked = Overlapping(spans, OccurrenceSpan(Concat(spans), hl.query))

\* ----------------------------------------------------------------- C16
\* C16: with no fragment in the text layer the search is attempted at most
\* RetryCap times and then given up with nothing marked; with fragments and
\* no occurrence of the query it ends at once, nothing marked, no retry.
C16_RetryBounded ==
  /\ hl.tries - (IF hl.found \/ hl.tries > hl.attempts THEN 1 ELSE 0) <= RetryCap
  /\ ~hl.timer /\ ~hl.found => hl.marked = {}
  /\ ~hl.timer /\ hl.tries > hl.attempts => hl.tries = hl.attempts + 1

\* ----------------------------------------------------------------- C17
\* the handler of session s is registered and its surface attached
Receiving(s) == s \in listeners /\ s \in LiveSurfaces(content)

\* the surface of session s reports page p and the handler takes the message
PageChanged(s, p) ==
  Receiving(s) /\ Message(s, "DJVU_PAGE_CHANGED", p, <<>>)

LineEnds(t) ==
  {i \in DOMAIN t : t[i] = 10 \/ (t[i] = 13 /\ ~(i < Len(t) /\ t[i + 1] = 10))}

\* the k-th line of t, its line break left out
SourceLine(t, k) ==
  LET End(j) == CHOOSE e \in LineEnds(t) :
                  Cardinality({x \in LineEnds(t) : x <= e}) = j
      First(e) == IF t[e] = 10 /\ e > 1 /\ t[e - 1] = 13 THEN e - 1 ELSE e
      from == IF k = 1 THEN 1 ELSE End(k - 1) + 1
      to == IF k = Cardinality(LineEnds(t)) + 1 THEN Len(t) ELSE First(End(k)) - 1
  IN SubSeq(t, from, to)

\* x without the whitespace at its end
Stripped(x) ==
  LET kept == {i \in DOMAIN x : ~IsJsWhitespace(x[i])}
  IN SubSeq(x, 1, IF kept = {} THEN 0
                   ELSE CHOOSE i \in kept : \A j \in kept : j <= i)

\* the quoted lines of t from the k-th on, one per line
RECURSIVE QuotedFrom(_, _)
QuotedFrom(t, k) ==
  Stripped(<<62, 32>> \o SourceLine(t, k))
  \o (IF k = Cardinality(LineEnds(t)) + 1 THEN <<>>
      ELSE <<10>> \o QuotedFrom(t, k + 1))

\* l is [[<path>#page=<n>&q=<token>|<name> (page <n>)]] for a token that is
\* not empty and holds none of # & | [ ]
HasLinkForm(l, path, name, n) ==
  LET head == <<91, 91>> \o path \o <<35, 112, 97, 103, 101, 61>> \o ToDigits(n)
              \o <<38, 113, 61>>
      tail == <<124>> \o name \o <<32, 40, 112, 97, 103, 101, 32>> \o ToDigits(n)
              \o <<41, 93, 93>>
      token == SubSeq(l, Len(head) + 1, Len(l) - Len(tail))
  IN /\ Len(l) > Len(head) + Len(tail)
     /\ SubSeq(l, 1, Len(head)) = head
     /\ SubSeq(l, Len(l) - Len(tail) + 1, Len(l)) = tail
     /\ \A i \in DOMAIN token : token[i] \notin {35, 38, 124, 91, 93}

\* C18: the menu built for a non-empty selection on page N offers the lines
\* of the selection (split at \r\n, \r and \n), each after "> " and without
\* the whitespace at its end, then an empty line, then the link
\* [[path#page=N&q=token|name (page N)]]; a menu is built for every
\* selection that is not empty and holds no lone surrogate.
C18_CitationBuilder ==
  /\ call.stage = "linked" /\ call.text # NullText =>
        /\ activeMenu.text = call.text /\ call.text # <<>>
        /\ HasLinkForm(activeMenu.link, Chars(file.path), Chars(file.path),
                       call.page)
        /\ activeMenu.quote =
             QuotedFrom(call.text, 1) \o <<10, 10>> \o activeMenu.link
  /\ call.stage = "unlinked" =>
        call.text = <<>> \/ \E i \in DOMAIN call.text : IsSurrogate(call.text[i])

\* the menus for "a\nb" and for the four lines "a \r\nb\r\rc \n" on page 5:
\* "> a", "> b" and "> a", "> b", ">", "> c", ">" before the empty line
C18_Witness ==
  /\ call.stage = "linked" /\ call.page = 5
  /\ \/ /\ call.text = TwoLines
        /\ SubSeq(activeMenu.quote, 1, 9) = <<62, 32, 97, 10, 62, 32, 98, 10, 10>>
     \/ /\ call.text = FourLines
        /\ SubSeq(activeMenu.quote, 1, 18) =
             <<62, 32, 97, 10, 62, 32, 98, 10, 62, 10, 62, 32, 99, 10, 62, 10, 10, 91>>

\* ----------------------------------------------------------------- C19
\* the save made for a PAGE_CHANGED of session s failed
SaveFailed(s, p) == PageChanged(s, p) /\ disk' # filePages'

\* C19: when the save of a position update fails the update stays in
\* memory, the view, its sessions and its content are as before, no notice
\* is raised, and the handler stays registered for the next PAGE_CHANGED.
C19_SaveFailureSwallowed ==
  [][\A s \in 1..MaxSeq, p \in Pages :
       SaveFailed(s, p) =>
         /\ GetFilePage(filePages', sessions[s].file.path) = p
         /\ UNCHANGED <<view, file, ctrl, sessions, loaded, notices>>
         /\ ~ErrorShown(content')
         /\ Receiving(s)']_vars

\* after a failed save a later PAGE_CHANGED was applied and saved: b.DJV is
\* stored although the data file once missed an update
C19_Witness ==
  /\ Receiving(renderSeq) /\ ~ErrorShown(content)
  /\ filePages["a.djvu"] \in Pages /\ disk["a.djvu"] = StoredPage

\* ----------------------------------------------------------------- C20
\* session s got READY, waits for its read or for its delay, and a later
\* open has minted a newer sequence
Superseded(s) ==
  /\ s \in 1..Len(sessions) /\ s < renderSeq
  /\ sessions[s].ready = "resolved"
  /\ sessions[s].pc \in {"awaitBuffer", "grace"}

\* C20: whatever a superseded session does once its read settles or its
\* delay expires, it sends no LOAD and leaves the pending page and quote as
\* they are.
C20_SupersededSessionInert ==
  [][\A s \in 1..MaxSeq :
       /\ Superseded(s)
       /\ GraceExpires(s) \/ \E ok \in BOOLEAN : ReadSettles(s, ok)
       => /\ UNCHANGED <<pendingPage, pendingHighlight>>
          /\ loaded' = loaded]_vars

\* ----------------------------------------------------------------- C21
\* the LOAD command of session s was posted to its attached surface
LoadSent(s) == s \in LiveSurfaces(content) /\ LoadOf(content, s).sent

\* C21: a page reported by the surface of a session whose LOAD has not been
\* sent (it waits for READY, for its read or for its delay) leaves the
\* stored positions and their persisted copy as they are.
C21_StoreOnlyWhenInteractive ==
  [][\A s \in 1..MaxSeq, p \in Pages :
       PageChanged(s, p) /\ ~LoadSent(s) => UNCHANGED <<filePages, disk>>]_vars

\* ----------------------------------------------------------------- C22
\* the file passes the validation of render
IsDjvu(f) == ToLowerCase(f.extension) \in {"djvu", "djv"}

\* the sequence numbers minted so far, one per session started
Minted == DOMAIN sessions

\* C22: renderSeq never decreases; an open of a DjVu file takes a sequence
\* number above every one minted before and starts the one session that has
\* it; the minted numbers are 1..renderSeq, each with its own session, and
\* no two surfaces carry the same one.
C22_SequenceMonotonic ==
  /\ [](/\ Minted = 1..renderSeq
        /\ \A i, j \in DOMAIN content :
             content[i].kind = "viewer" /\ content[j].kind = "viewer"
             /\ content[i].seq = content[j].seq => i = j
        /\ LiveSurfaces(content) \cup listeners \cup timers \subseteq Minted)
  /\ [][/\ renderSeq' >= renderSeq
        /\ \A f \in Files :
             OnLoadFile(f) /\ IsDjvu(f) =>
               /\ \A m \in Minted : renderSeq' > m
               /\ Minted' = Minted \cup {renderSeq'}
               /\ LiveSurfaces(content') = {renderSeq'}
               /\ sessions'[renderSeq'].pc = "awaitReady"]_vars

\* a second document was opened after the first: the second session has
\* sequence 2 and owns the only surface
C22_Witness ==
  /\ renderSeq = 2 /\ Len(sessions) = 2 /\ LiveSurfaces(content) = {2}
  /\ sessions[2].pc = "awaitReady" /\ file.path = "b.DJV"

\* ----------------------------------------------------------------- C23
\* C23: when the payload read of a session rejects after a later open has
\* attached its own surface, the content of the view is left as it is (not
\* emptied, no error panel in place of the new surface) and no notice is
\* raised.
C23_StaleFailureHarmless ==
  [][\A s \in 1..MaxSeq :
       /\ s \in DOMAIN sessions /\ s < renderSeq
       /\ renderSeq \in LiveSurfaces(content)
       /\ ReadSettles(s, FALSE)
       => /\ content' = content
          /\ notices' = notices]_vars

\* ----------------------------------------------------------------- C24
\* the current session s ends in this step: its LOAD is posted to its
\* surface, or its render fails
Ends(s) ==
  /\ s \in DOMAIN sessions /\ s = renderSeq /\ s \in LiveSurfaces(content)
  /\ sessions[s].pc \notin {"done", "failed"}
  /\ sessions'[s].pc \in {"done", "failed"}

\* C24: when the current session ends, by its LOAD or by a failure, no page
\* and no quote is left pending for a later open.
C24_IntentNotLeftPending ==
  [][\A s \in 1..MaxSeq :
       Ends(s) => pendingPage' = Null /\ pendingHighlight' = NullText]_vars

\* ----------------------------------------------------------------- C25
\* the surface of session s posts READY
Ready(s) ==
  \E d \in MessageData("DJVU_READY") : Message(s, "DJVU_READY", d.page, d.text)

\* C25: a recorded handshake wait is that of the current sequence, with its
\* listener registered and its timer pending; a LOAD is posted only for a
\* session whose handshake resolved and that has had none; a session whose
\* handshake failed gets none; a READY of a session whose handshake is
\* settled (resolved, rejected or timed out) changes nothing.
C25_AtMostOneLoad ==
  /\ [](/\ initWait # Null =>
             initWait = renderSeq /\ initWait \in listeners /\ initWait \in timers
        /\ \A s \in DOMAIN sessions :
             sessions[s].ready = "rejected" => s \notin loaded /\ ~LoadSent(s))
  /\ [][\A s \in 1..MaxSeq :
          /\ GraceExpires(s) /\ s \in LiveSurfaces(content) =>
               /\ ~LoadSent(s) /\ s \notin loaded
               /\ sessions[s].ready = "resolved"
          /\ s \in DOMAIN sessions /\ sessions[s].ready # "pending" /\ Ready(s) =>
               UNCHANGED <<ctrl, sessions, loaded, notices, pendingPage,
                           pendingHighlight>>]_vars

\* the one LOAD of session 1 was posted and nothing waits for a handshake
C25_Witness ==
  /\ renderSeq = 1 /\ LoadSent(1) /\ 1 \in loaded /\ initWait = Null
  /\ sessions[1].ready = "resolved" /\ sessions[1].pc = "done" /\ timers = {}

====
